---- MODULE Spec2Model ----
(***************************************************************************)
(* A model of the networked session layer of go-ipfs:                      *)
(*   - core.IpfsNode: the factories Standard / NewIPFSNode, the steps of   *)
(*     StartOnlineServices, Bootstrap, SetupOfflineRouting, teardown       *)
(*     (src/core/core.go);                                                 *)
(*   - the bitswap network adapter impl: SendMessage, SendRequest,         *)
(*     FindProvidersAsync, SetDelegate, handleNewStream and the listener   *)
(*     netNotifiee (src/unnamed/part_000);                                 *)
(*   - the peerstore: Get, FindOrCreate, Add, Delete, All, WithKeyPair,    *)
(*     WithID (src/peer/peerstore.go).                                     *)
(* The components share no state, so each has a specification of its own   *)
(* over the same variables: Spec (the node), SendSpec (the sends),         *)
(* FindSpec and FindLiveSpec (the provider search), RecvSpec (inbound      *)
(* streams and events), RegSpec (the peerstore).                           *)
(***************************************************************************)
EXTENDS Integers, Sequences, FiniteSets, TLC

\* ------------------------------------------------------------- bounds
\* Direct callers of StartOnlineServices on a constructed node (each calls once).
MaxCallers == 2
\* Direct calls of IpfsNode.Bootstrap on a constructed node.
MaxBootstraps == 1

None == "nil"
\* The nil value of a field that holds an instance (instances are numbered from 1).
NoInst == 0

\* Call 0 is the call the Online factory makes inline; 1..MaxCallers are direct.
Callers == 1..MaxCallers
Calls == 0..MaxCallers

\* ------------------------------------------------------------- state
VARIABLES
  cfg,        \* the repo's configuration and the factory's arguments
  n,          \* the IpfsNode's fields (core.go 62-93)
  ps,         \* n.Peerstore: the keys stored under n.Identity
  fpc,        \* where the factory (NewIPFSNode + Standard) is, then the node's phase
  pc,         \* per StartOnlineServices call: the step it is at
  result,     \* per StartOnlineServices call: what it returned
  built,      \* per call: the resources the call constructed
  stepLog,    \* per call: the steps it executed, in order
  bootOutcome,\* per call: how its bootstrap step ended
  hostsBuilt, \* hosts constructed so far (constructPeerHost succeeded)
  bootSeq,    \* bootstrappers started so far
  bootCalls,  \* direct Bootstrap calls made so far
  reprovLoops,\* ProvideEvery loops started so far
  ctxDone,    \* the node's context group was closed
  closeLog,   \* every Close call made on an owned resource, in order
  td,         \* the teardown that ran: its Close calls, their outcomes, its result
  overlap     \* two StartOnlineServices calls were in flight at the same time

VARIABLES
  sPc,        \* per send call: where SendMessage / SendRequest is
  sKind,      \* per send call: "msg" (SendMessage) or "req" (SendRequest)
  sResult,    \* per send call: what it returned
  stream,     \* per send call: the stream NewStream gave it: none, open, closed
  sLog,       \* per send call: the host and stream operations it made, in order
  sFailed     \* per send call: the operation that returned an error to it, if any

VARIABLES
  fpPc,       \* where FindProvidersAsync's forwarding goroutine is
  routSeq,    \* the ids of the providers Routing delivered, in order
  routClosed, \* Routing closed its providers channel
  cur,        \* the provider the goroutine holds (info)
  outSeq,     \* the ids the consumer received from out, in order
  outClosed,  \* out was closed
  ctxCancelled, \* the caller's context is done
  addrBook    \* the ids whose addresses AddAddresses recorded in the host's peerstore

VARIABLES
  receiver,   \* bsnet.receiver: the delegate SetDelegate installed, nil before
  delegates,  \* SetDelegate calls made so far
  hPc,        \* per inbound stream: where its handleNewStream is
  hOk,        \* per inbound stream: whether bsmsg.FromNet decoded its message
  hClose,     \* per inbound stream: the Close calls made on it
  hLog,       \* per inbound stream: the calls its handler made, in order
  errPending, \* per inbound stream: the receiver a spawned ReceiveError call is bound to
  errHook,    \* per inbound stream: the ReceiveError calls made for it
  msgHook,    \* per inbound stream: the ReceiveMessage calls made for it
  events,     \* the events the Host delivered to the listener, in order
  notes,      \* the notifications the receiver got from the listener, in order
  crashed     \* a call through the nil receiver panicked

VARIABLES
  data,       \* peerstore.data: key string -> the Peer stored (a reference), 0 if none
  peers,      \* the peer objects allocated so far, by reference
  lock,       \* the peerstore's mutex: the task that holds it, 0 if free
  rPc,        \* per task: where its registry operation is
  rOp,        \* per task: the operation it is executing and its arguments
  rRet,       \* the operation that returned last, its task and what it returned
  regOps,     \* registry operations begun so far
  focAll,     \* per key: the records FindOrCreate calls returned for it
  focSince,   \* per key: the same in call order, since the last Delete of the key
  regPanic    \* a registry operation panicked

sendVars == <<sPc, sKind, sResult, stream, sLog, sFailed>>
findVars == <<fpPc, routSeq, routClosed, cur, outSeq, outClosed, ctxCancelled, addrBook>>

recvVars == <<receiver, delegates, hPc, hOk, hClose, hLog, errPending, errHook, msgHook,
              events, notes, crashed>>
regVars == <<data, peers, lock, rPc, rOp, rRet, regOps, focAll, focSince, regPanic>>

nodeVars == <<cfg, n, ps, fpc, pc, result, built, stepLog, bootOutcome, hostsBuilt,
              bootSeq, bootCalls, reprovLoops, ctxDone, closeLog, td, overlap>>

\* ------------------------------------------------------------- keys, ids
\* ic.PrivKey values a config can hold, and what decoding the config yields.
PrivKeys == {"skA", "skB"}
CfgPrivKeys == PrivKeys \cup {"garbage"}
PeerIDs == {"idA", "idB"}

\* sk.GetPublic()
GetPublic(sk) == IF sk = "skA" THEN "pkA" ELSE "pkB"

\* peer.IDFromPrivateKey: the hash of the key's public key.
IDFromPrivateKey(sk) == IF sk = "skA" THEN "idA" ELSE "idB"

\* loadPrivateKey without the comparison of the key's id with the node's.
loadPrivateKeyAnyId(c, id) ==
  IF c.PrivKey \notin PrivKeys THEN [err |-> "DecodeError", sk |-> None]
  ELSE [err |-> None, sk |-> c.PrivKey]

\* loadPrivateKey(cfg, id): the key, or an error.
loadPrivateKey(c, id) ==
  IF c.PrivKey \notin PrivKeys THEN [err |-> "DecodeError", sk |-> None]
  ELSE IF IDFromPrivateKey(c.PrivKey) # id THEN [err |-> "KeyIdMismatch", sk |-> None]
  ELSE [err |-> None, sk |-> c.PrivKey]

\* ------------------------------------------------------------- the node
\* The zero IpfsNode: what &IpfsNode{} holds before any field is set.
\* BlocksExchange is the exchange n.Blocks was made with (bserv.New, core.go 126).
ZeroNode ==
  [mode |-> "invalid", Identity |-> "", Repo |-> FALSE, Peerstore |-> FALSE,
   Blockstore |-> FALSE, Blocks |-> FALSE, PrivateKey |-> None, PeerHost |-> NoInst,
   Bootstrapper |-> NoInst, Routing |-> None, Exchange |-> None, Namesys |-> FALSE,
   Diagnostics |-> FALSE, Reprovider |-> FALSE, BlocksExchange |-> None]

NoTeardown == [ran |-> FALSE, calls |-> <<>>, err |-> None, installed |-> {}]

\* The arguments of a factory call (the repo, online or offline) and what the
\* repo's config holds (Identity.PeerID, Identity.PrivKey).
Configs ==
  [repo : BOOLEAN, online : BOOLEAN, PeerID : {"", "idA"}, PrivKey : CfgPrivKeys]

NoConfig == [repo |-> FALSE, online |-> FALSE, PeerID |-> "", PrivKey |-> "garbage"]

NodeInit ==
  /\ cfg = NoConfig
  /\ n = ZeroNode
  /\ ps = [priv |-> None, pub |-> None, addrs |-> FALSE]
  /\ fpc = "standard"
  /\ pc = [t \in Calls |-> "idle"]
  /\ result = [t \in Calls |-> None]
  /\ built = [t \in Calls |-> {}]
  /\ stepLog = [t \in Calls |-> <<>>]
  /\ bootOutcome = [t \in Calls |-> None]
  /\ hostsBuilt = 0
  /\ bootSeq = 0
  /\ bootCalls = 0
  /\ reprovLoops = 0
  /\ ctxDone = FALSE
  /\ closeLog = <<>>
  /\ td = NoTeardown
  /\ overlap = FALSE

\* ------------------------------------------------------------- teardown
\* A Close call on an owned resource: which resource, which instance.
Closer(res, id) == [res |-> res, id |-> id]

\* Closers with the host appended first instead of last.
ClosersHostFirst(node) ==
     (IF node.PeerHost # NoInst THEN <<Closer("PeerHost", node.PeerHost)>> ELSE <<>>)
  \o (IF node.Bootstrapper # NoInst
        THEN <<Closer("Bootstrapper", node.Bootstrapper)>> ELSE <<>>)
  \o (IF node.Repo THEN <<Closer("Repo", 1)>> ELSE <<>>)
  \o <<Closer("Blocks", IF node.Blocks THEN 1 ELSE 0)>>
  \o (IF node.Routing = "dht" THEN <<Closer("DHT", 1)>> ELSE <<>>)

\* teardown's closers list (core.go 253-266), in the order it is built.
\* addCloser skips a nil interface only: n.Bootstrapper, n.Repo and n.PeerHost are
\* interfaces, n.Blocks is a *bserv.BlockService, so the io.Closer made of it is
\* never nil and Blocks is appended also while n.Blocks is still nil (id 0).
Closers(node) ==
     (IF node.Bootstrapper # NoInst
        THEN <<Closer("Bootstrapper", node.Bootstrapper)>> ELSE <<>>)
  \o (IF node.Repo THEN <<Closer("Repo", 1)>> ELSE <<>>)
  \o <<Closer("Blocks", IF node.Blocks THEN 1 ELSE 0)>>
  \o (IF node.Routing = "dht" THEN <<Closer("DHT", 1)>> ELSE <<>>)
  \o (IF node.PeerHost # NoInst THEN <<Closer("PeerHost", node.PeerHost)>> ELSE <<>>)

Min(S) == CHOOSE x \in S : \A y \in S : x <= y

\* CloseCalls with the loop returning at the first Close that fails.
CloseCallsUntilError(closers, failing) ==
  IF failing = {} THEN closers ELSE SubSeq(closers, 1, Min(failing))

\* The closers teardown's loop calls Close on, given the set of positions whose
\* Close fails: all of them (core.go 269-273 collects, it does not return early).
CloseCalls(closers, failing) == closers

\* The error a failing Close of resource `res` returns (named after the resource).
CloseError(res) == res

\* teardown's result: errs[0], the error of the first Close that failed, or nil.
TeardownErr(closers, failing) ==
  IF failing = {} THEN None ELSE CloseError(closers[Min(failing)].res)

\* The owned resources a node has installed.
Installed(node) ==
     (IF node.Bootstrapper # NoInst THEN {Closer("Bootstrapper", node.Bootstrapper)} ELSE {})
  \cup (IF node.Repo THEN {Closer("Repo", 1)} ELSE {})
  \cup (IF node.Blocks THEN {Closer("Blocks", 1)} ELSE {})
  \cup (IF node.Routing = "dht" THEN {Closer("DHT", 1)} ELSE {})
  \cup (IF node.PeerHost # NoInst THEN {Closer("PeerHost", node.PeerHost)} ELSE {})

\* n.teardown() with the Close calls at the positions `failing` returning an error.
Teardown(failing) ==
  LET closers == Closers(n)
      called == CloseCalls(closers, failing)
      calls == [i \in 1..Len(called) |->
                  [res |-> called[i].res, id |-> called[i].id, ok |-> i \notin failing]]
  IN /\ td' = [ran |-> TRUE, calls |-> calls,
               err |-> TeardownErr(closers, failing), installed |-> Installed(n)]
     /\ closeLog' = closeLog \o [i \in 1..Len(called) |-> called[i]]

\* ------------------------------------------------------------- Bootstrap
\* Bootstrap without the Close of the previous bootstrapper.
BootstrapKeepsPrevious(node, ok) ==
  IF node.Routing = None
    THEN [node |-> node, closed |-> <<>>, err |-> None, started |-> FALSE]
    ELSE [node |-> [node EXCEPT !.Bootstrapper = IF ok THEN bootSeq + 1 ELSE NoInst],
          closed |-> <<>>,
          err |-> IF ok THEN None ELSE "BootstrapError",
          started |-> ok]

\* Bootstrap leaving the closed bootstrapper on the node when the new one fails.
BootstrapKeepsClosed(node, ok) ==
  IF node.Routing = None
    THEN [node |-> node, closed |-> <<>>, err |-> None, started |-> FALSE]
    ELSE [node |-> [node EXCEPT !.Bootstrapper = IF ok THEN bootSeq + 1 ELSE @],
          closed |-> IF node.Bootstrapper # NoInst
                       THEN <<Closer("Bootstrapper", node.Bootstrapper)>> ELSE <<>>,
          err |-> IF ok THEN None ELSE "BootstrapError",
          started |-> ok]

\* IpfsNode.Bootstrap (core.go 293-321), `ok` being whether the package's
\* Bootstrap(n, cfg) succeeds: no routing, nothing happens; otherwise the previous
\* bootstrapper is closed (its error dropped) and n.Bootstrapper takes what
\* Bootstrap(n, cfg) returned, a new bootstrapper or nil with an error.
Bootstrap(node, ok) ==
  IF node.Routing = None
    THEN [node |-> node, closed |-> <<>>, err |-> None, started |-> FALSE]
    ELSE [node |-> [node EXCEPT !.Bootstrapper = IF ok THEN bootSeq + 1 ELSE NoInst],
          closed |-> IF node.Bootstrapper # NoInst
                       THEN <<Closer("Bootstrapper", node.Bootstrapper)>> ELSE <<>>,
          err |-> IF ok THEN None ELSE "BootstrapError",
          started |-> ok]

\* ------------------------------------------------------------- StartOnlineServices
\* AlreadyOnline deciding by the node's mode instead of the installed host.
AlreadyOnlineByMode(node) == node.mode = "online"

\* The already-online guard (core.go 208-210).
AlreadyOnline(node) == node.PeerHost # NoInst

\* IpfsNode.OnlineMode (core.go 280-287): true for onlineMode only; n.mode is set
\* when Standard allocates the node (core.go 170-178) and nowhere else.
OnlineMode(node) == node.mode = "online"

\* NextStep with routing constructed before the host.
NextStepRoutingFirst(s) ==
  CASE s = "check" -> "keycheck"
    [] s = "keycheck" -> "keyload"
    [] s = "keyload" -> "routing"
    [] s = "routing" -> "host"
    [] s = "host" -> "exchange"
    [] s = "exchange" -> "namesys"
    [] s = "namesys" -> "reprovider"
    [] s = "reprovider" -> "bootstrap"
    [] OTHER -> "done"

\* The statement that follows each step of StartOnlineServices when the step
\* succeeds (core.go 208-245).
NextStep(s) ==
  CASE s = "check" -> "keycheck"
    [] s = "keycheck" -> "keyload"
    [] s = "keyload" -> "host"
    [] s = "host" -> "routing"
    [] s = "routing" -> "exchange"
    [] s = "exchange" -> "namesys"
    [] s = "namesys" -> "reprovider"
    [] s = "reprovider" -> "bootstrap"
    [] OTHER -> "done"

\* BootstrapResult with the error logged and dropped.
BootstrapResultDropped(err) == "ok"

\* What StartOnlineServices returns for the error n.Bootstrap returned.
BootstrapResult(err) == IF err = None THEN "ok" ELSE err

InFlight(t) == pc[t] \notin {"idle", "done"}

\* Call t executes the step it is at and moves to `to`.
Advance(t, to) ==
  /\ pc' = [pc EXCEPT ![t] = to]
  /\ stepLog' = [stepLog EXCEPT ![t] = Append(@, pc[t])]

\* Call t returns `r`.
Return(t, r) ==
  /\ Advance(t, "done")
  /\ result' = [result EXCEPT ![t] = r]

\* A direct caller invokes StartOnlineServices on the constructed node.
Call(t) ==
  /\ UNCHANGED <<sendVars, findVars, recvVars, regVars>>
  /\ t \in Callers
  /\ fpc = "ready"
  /\ pc[t] = "idle"
  /\ pc' = [pc EXCEPT ![t] = "check"]
  /\ overlap' = (overlap \/ \E u \in Calls \ {t} : InFlight(u))
  /\ UNCHANGED <<cfg, n, ps, fpc, result, built, stepLog, bootOutcome, hostsBuilt,
                 bootSeq, bootCalls, reprovLoops, ctxDone, closeLog, td>>

\* core.go 208-210
SOS_Check(t) ==
  /\ UNCHANGED <<sendVars, findVars, recvVars, regVars>>
  /\ pc[t] = "check"
  /\ IF AlreadyOnline(n)
       THEN Return(t, "AlreadyOnline")
       ELSE Advance(t, NextStep("check")) /\ UNCHANGED result
  /\ UNCHANGED <<cfg, n, ps, fpc, built, bootOutcome, hostsBuilt, bootSeq, bootCalls,
                 reprovLoops, ctxDone, closeLog, td, overlap>>

\* IpfsNode.loadPrivateKey's guards (core.go 341-347).
KeyGuard(node) ==
  IF node.Identity = "" \/ ~node.Peerstore THEN "KeyOutOfOrder"
  ELSE IF node.PrivateKey # None THEN "KeyAlreadyLoaded"
  ELSE None

SOS_KeyCheck(t) ==
  /\ UNCHANGED <<sendVars, findVars, recvVars, regVars>>
  /\ pc[t] = "keycheck"
  /\ IF KeyGuard(n) # None
       THEN Return(t, KeyGuard(n))
       ELSE Advance(t, NextStep("keycheck")) /\ UNCHANGED result
  /\ UNCHANGED <<cfg, n, ps, fpc, built, bootOutcome, hostsBuilt, bootSeq, bootCalls,
                 reprovLoops, ctxDone, closeLog, td, overlap>>

\* IpfsNode.loadPrivateKey's load and install (core.go 349-357).
SOS_KeyLoad(t) ==
  /\ UNCHANGED <<sendVars, findVars, recvVars, regVars>>
  /\ pc[t] = "keyload"
  /\ LET r == loadPrivateKey(cfg, n.Identity) IN
       IF r.err # None
         THEN Return(t, r.err) /\ UNCHANGED <<n, ps>>
         ELSE /\ Advance(t, NextStep("keyload"))
              /\ n' = [n EXCEPT !.PrivateKey = r.sk]
              /\ ps' = [ps EXCEPT !.priv = r.sk, !.pub = GetPublic(r.sk)]
              /\ UNCHANGED result
  /\ UNCHANGED <<cfg, fpc, built, bootOutcome, hostsBuilt, bootSeq, bootCalls,
                 reprovLoops, ctxDone, closeLog, td, overlap>>

\* InstallHost without the assignment to n.PeerHost.
InstallHostDiagnosticsOnly(node, h) == [node EXCEPT !.Diagnostics = TRUE]

\* n.PeerHost = peerhost, then the diagnostics service on it (core.go 221-224).
InstallHost(node, h) == [node EXCEPT !.PeerHost = h, !.Diagnostics = TRUE]

\* constructPeerHost, n.PeerHost and n.Diagnostics (core.go 217-224, 407-437):
\* a failed construction returns no host.
SOS_Host(t) ==
  /\ UNCHANGED <<sendVars, findVars, recvVars, regVars>>
  /\ pc[t] = "host"
  /\ \E ok \in BOOLEAN :
       IF ~ok
         THEN Return(t, "HostError") /\ UNCHANGED <<n, ps, built, hostsBuilt>>
         ELSE /\ Advance(t, NextStep("host"))
              /\ hostsBuilt' = hostsBuilt + 1
              /\ n' = InstallHost(n, hostsBuilt + 1)
              /\ ps' = [ps EXCEPT !.addrs = TRUE]
              /\ built' = [built EXCEPT ![t] = @ \cup {Closer("PeerHost", hostsBuilt + 1)}]
              /\ UNCHANGED result
  /\ UNCHANGED <<cfg, fpc, bootOutcome, bootSeq, bootCalls, reprovLoops, ctxDone,
                 closeLog, td, overlap>>

\* constructDHTRouting and n.Routing (core.go 227-231, 439-443): it returns no error.
SOS_Routing(t) ==
  /\ UNCHANGED <<sendVars, findVars, recvVars, regVars>>
  /\ pc[t] = "routing"
  /\ Advance(t, NextStep("routing"))
  /\ n' = [n EXCEPT !.Routing = "dht"]
  /\ built' = [built EXCEPT ![t] = @ \cup {Closer("DHT", 1)}]
  /\ UNCHANGED <<cfg, ps, fpc, result, bootOutcome, hostsBuilt, bootSeq, bootCalls,
                 reprovLoops, ctxDone, closeLog, td, overlap>>

\* bsnet.NewFromIpfsHost and bitswap.New (core.go 234-236)
SOS_Exchange(t) ==
  /\ UNCHANGED <<sendVars, findVars, recvVars, regVars>>
  /\ pc[t] = "exchange"
  /\ Advance(t, NextStep("exchange"))
  /\ n' = [n EXCEPT !.Exchange = "bitswap"]
  /\ UNCHANGED <<cfg, ps, fpc, result, built, bootOutcome, hostsBuilt, bootSeq,
                 bootCalls, reprovLoops, ctxDone, closeLog, td, overlap>>

\* namesys.NewNameSystem (core.go 240)
SOS_Namesys(t) ==
  /\ UNCHANGED <<sendVars, findVars, recvVars, regVars>>
  /\ pc[t] = "namesys"
  /\ Advance(t, NextStep("namesys"))
  /\ n' = [n EXCEPT !.Namesys = TRUE]
  /\ UNCHANGED <<cfg, ps, fpc, result, built, bootOutcome, hostsBuilt, bootSeq,
                 bootCalls, reprovLoops, ctxDone, closeLog, td, overlap>>

\* rp.NewReprovider and go ProvideEvery (core.go 242-243)
SOS_Reprovider(t) ==
  /\ UNCHANGED <<sendVars, findVars, recvVars, regVars>>
  /\ pc[t] = "reprovider"
  /\ Advance(t, NextStep("reprovider"))
  /\ n' = [n EXCEPT !.Reprovider = TRUE]
  /\ reprovLoops' = reprovLoops + 1
  /\ built' = [built EXCEPT ![t] = @ \cup {Closer("Reprovider", reprovLoops + 1)}]
  /\ UNCHANGED <<cfg, ps, fpc, result, bootOutcome, hostsBuilt, bootSeq, bootCalls,
                 ctxDone, closeLog, td, overlap>>

\* return n.Bootstrap(DefaultBootstrapConfig) (core.go 245)
SOS_Bootstrap(t) ==
  /\ UNCHANGED <<sendVars, findVars, recvVars, regVars>>
  /\ pc[t] = "bootstrap"
  /\ \E ok \in BOOLEAN :
       LET b == Bootstrap(n, ok) IN
         /\ Return(t, BootstrapResult(b.err))
         /\ n' = b.node
         /\ closeLog' = closeLog \o b.closed
         /\ bootSeq' = IF b.started THEN bootSeq + 1 ELSE bootSeq
         /\ built' = [built EXCEPT ![t] =
                        IF b.started THEN @ \cup {Closer("Bootstrapper", bootSeq + 1)} ELSE @]
         /\ bootOutcome' = [bootOutcome EXCEPT ![t] = IF ok THEN "ok" ELSE "failed"]
  /\ UNCHANGED <<cfg, ps, fpc, hostsBuilt, bootCalls, reprovLoops, ctxDone, td, overlap>>

StartOnlineServices(t) ==
  \/ SOS_Check(t)
  \/ SOS_KeyCheck(t)
  \/ SOS_KeyLoad(t)
  \/ SOS_Host(t)
  \/ SOS_Routing(t)
  \/ SOS_Exchange(t)
  \/ SOS_Namesys(t)
  \/ SOS_Reprovider(t)
  \/ SOS_Bootstrap(t)

\* ------------------------------------------------------------- the factories
\* IpfsNode.loadID (core.go 323-338) on a fresh node.
loadID(c) == IF c.PeerID = "" THEN "IdentityNotSet" ELSE None

\* Standard's body up to the online/offline branch (core.go 153-199): no repo, no
\* node and nothing to tear down; otherwise the node is allocated with its mode,
\* repo and peerstore, the identity is loaded and the blockstore made (`bsOk`).
\* A failure leaves the deferred teardown to run (F_Rollback).
F_Standard ==
  /\ UNCHANGED <<sendVars, findVars, recvVars, regVars>>
  /\ fpc = "standard"
  /\ \E c \in Configs, bsOk \in BOOLEAN :
       /\ cfg' = c
       /\ IF ~c.repo
            THEN /\ fpc' = "failed"
                 /\ ctxDone' = TRUE
                 /\ UNCHANGED <<n, pc>>
            ELSE LET n0 == [ZeroNode EXCEPT
                              !.mode = IF c.online THEN "online" ELSE "offline",
                              !.Repo = TRUE, !.Peerstore = TRUE]
                 IN IF loadID(c) # None
                      THEN /\ n' = n0
                           /\ fpc' = "rollback"
                           /\ UNCHANGED <<pc, ctxDone>>
                      ELSE IF ~bsOk
                        THEN /\ n' = [n0 EXCEPT !.Identity = c.PeerID]
                             /\ fpc' = "rollback"
                             /\ UNCHANGED <<pc, ctxDone>>
                        ELSE IF c.online
                          THEN /\ n' = [n0 EXCEPT !.Identity = c.PeerID,
                                                   !.Blockstore = TRUE]
                               /\ fpc' = "starting"
                               /\ pc' = [pc EXCEPT ![0] = "check"]
                               /\ UNCHANGED ctxDone
                          ELSE /\ n' = [n0 EXCEPT !.Identity = c.PeerID,
                                                   !.Blockstore = TRUE,
                                                   !.Exchange = "offline"]
                               /\ fpc' = "newnode"
                               /\ UNCHANGED <<pc, ctxDone>>
  /\ UNCHANGED <<ps, result, built, stepLog, bootOutcome, hostsBuilt, bootSeq,
                 bootCalls, reprovLoops, closeLog, td, overlap>>

\* The factory's inline StartOnlineServices call returned (core.go 194-202).
F_Started ==
  /\ UNCHANGED <<sendVars, findVars, recvVars, regVars>>
  /\ fpc = "starting"
  /\ pc[0] = "done"
  /\ fpc' = IF result[0] = "ok" THEN "newnode" ELSE "rollback"
  /\ UNCHANGED <<cfg, n, ps, pc, result, built, stepLog, bootOutcome, hostsBuilt,
                 bootSeq, bootCalls, reprovLoops, ctxDone, closeLog, td, overlap>>

\* Standard's deferred teardown on failure (core.go 157-161), then NewIPFSNode's
\* deferred ctxg.Close() (core.go 109-118), which has no teardown set yet.
F_Rollback ==
  /\ UNCHANGED <<sendVars, findVars, recvVars, regVars>>
  /\ fpc = "rollback"
  /\ \E failing \in SUBSET (1..Len(Closers(n))) : Teardown(failing)
  /\ ctxDone' = TRUE
  /\ fpc' = "failed"
  /\ UNCHANGED <<cfg, n, ps, pc, result, built, stepLog, bootOutcome, hostsBuilt,
                 bootSeq, bootCalls, reprovLoops, overlap>>

\* NewIPFSNode after the option returned a node (core.go 119-140): teardown is set
\* on the context group, then the block service is made (`ok`); if that fails the
\* deferred ctxg.Close() runs teardown.
F_NewNode ==
  /\ UNCHANGED <<sendVars, findVars, recvVars, regVars>>
  /\ fpc = "newnode"
  /\ \E ok \in BOOLEAN :
       IF ok
         THEN /\ n' = [n EXCEPT !.Blocks = TRUE, !.BlocksExchange = n.Exchange]
              /\ fpc' = "ready"
              /\ UNCHANGED <<ctxDone, closeLog, td>>
         ELSE /\ \E failing \in SUBSET (1..Len(Closers(n))) : Teardown(failing)
              /\ ctxDone' = TRUE
              /\ fpc' = "failed"
              /\ UNCHANGED n
  /\ UNCHANGED <<cfg, ps, pc, result, built, stepLog, bootOutcome, hostsBuilt,
                 bootSeq, bootCalls, reprovLoops, overlap>>

\* ------------------------------------------------------------- the constructed node
\* A direct call of n.Bootstrap(cfg) (core.go 293-321).
BootstrapCall ==
  /\ UNCHANGED <<sendVars, findVars, recvVars, regVars>>
  /\ fpc = "ready"
  /\ bootCalls < MaxBootstraps
  /\ \E ok \in BOOLEAN :
       LET b == Bootstrap(n, ok) IN
         /\ n' = b.node
         /\ closeLog' = closeLog \o b.closed
         /\ bootSeq' = IF b.started THEN bootSeq + 1 ELSE bootSeq
  /\ bootCalls' = bootCalls + 1
  /\ UNCHANGED <<cfg, ps, fpc, pc, result, built, stepLog, bootOutcome, hostsBuilt,
                 reprovLoops, ctxDone, td, overlap>>

\* IpfsNode.SetupOfflineRouting (core.go 363-371): loadPrivateKey, then the
\* offline router; an error changes nothing.
SetupOfflineRouting ==
  /\ UNCHANGED <<sendVars, findVars, recvVars, regVars>>
  /\ fpc = "ready"
  /\ LET r == loadPrivateKey(cfg, n.Identity) IN
       IF KeyGuard(n) # None \/ r.err # None
         THEN UNCHANGED <<n, ps>>
         ELSE /\ n' = [n EXCEPT !.PrivateKey = r.sk, !.Routing = "offline"]
              /\ ps' = [ps EXCEPT !.priv = r.sk, !.pub = GetPublic(r.sk)]
  /\ UNCHANGED <<cfg, fpc, pc, result, built, stepLog, bootOutcome, hostsBuilt,
                 bootSeq, bootCalls, reprovLoops, ctxDone, closeLog, td, overlap>>

\* n.Close(): the context group runs the teardown set on it (core.go 120), once.
\* The node's owner closes it when the calls made on it have returned.
Close ==
  /\ UNCHANGED <<sendVars, findVars, recvVars, regVars>>
  /\ fpc = "ready"
  /\ \A t \in Calls : ~InFlight(t)
  /\ \E failing \in SUBSET (1..Len(Closers(n))) : Teardown(failing)
  /\ ctxDone' = TRUE
  /\ fpc' = "closed"
  /\ UNCHANGED <<cfg, n, ps, pc, result, built, stepLog, bootOutcome, hostsBuilt,
                 bootSeq, bootCalls, reprovLoops, overlap>>

\* ============================================================= the transport
\* Concurrent SendMessage / SendRequest calls on the adapter.
MaxSends == 2
\* Providers Routing delivers to one FindProvidersAsync search.
MaxProviders == 3

SendCalls == 1..MaxSends

\* bsnet.host.ID(), and the peers Routing may name as providers (the local node's
\* own id among them).
HostID == "idA"
Providers == PeerIDs \cup {"idC"}

SendInit ==
  /\ sPc = [c \in SendCalls |-> "idle"]
  /\ sKind = [c \in SendCalls |-> None]
  /\ sResult = [c \in SendCalls |-> None]
  /\ stream = [c \in SendCalls |-> "none"]
  /\ sLog = [c \in SendCalls |-> <<>>]
  /\ sFailed = [c \in SendCalls |-> None]

\* DeferredClose as an explicit Close before the final return only.
DeferredCloseOnSuccess(kind, exit) == exit = "ok"

\* Whether the deferred s.Close() runs when a call that holds a stream leaves
\* through `exit` (part_000 55, 80: the defer is registered right after NewStream
\* succeeded, so it runs on every later exit).
DeferredClose(kind, exit) == TRUE

\* Call c performs operation `op`, which succeeds, and goes on to `to`.
SendStep(c, op, to) ==
  /\ sPc' = [sPc EXCEPT ![c] = to]
  /\ sLog' = [sLog EXCEPT ![c] = Append(@, op)]
  /\ UNCHANGED <<sKind, sResult, stream, sFailed>>

\* Call c performs `op`, which fails, and returns `res` without holding a stream.
SendFail(c, op, res) ==
  /\ sPc' = [sPc EXCEPT ![c] = "done"]
  /\ sLog' = [sLog EXCEPT ![c] = Append(@, op)]
  /\ sResult' = [sResult EXCEPT ![c] = res]
  /\ sFailed' = [sFailed EXCEPT ![c] = op]
  /\ UNCHANGED <<sKind, stream>>

\* SendError with the error of a failed read logged and dropped.
SendErrorReadDropped(op) ==
  CASE op = "ToNet" -> "WriteError" [] OTHER -> "ok"

\* What a call holding a stream returns when `op` fails (part_000 57-60, 82-85,
\* 87-91): the error of the write, the error of the read.
SendError(op) ==
  CASE op = "ToNet" -> "WriteError" [] op = "FromNet" -> "ReadError" [] OTHER -> "ok"

\* Call c performs `op` on its stream and returns, with the operation's error when
\* it failed (`ok` false): the deferred Close runs.
SendReturn(c, op, ok) ==
  /\ sPc' = [sPc EXCEPT ![c] = "done"]
  /\ sResult' = [sResult EXCEPT ![c] = IF ok THEN "ok" ELSE SendError(op)]
  /\ sFailed' = [sFailed EXCEPT ![c] = IF ok THEN None ELSE op]
  /\ IF DeferredClose(sKind[c], IF ok THEN "ok" ELSE SendError(op))
       THEN /\ stream' = [stream EXCEPT ![c] = "closed"]
            /\ sLog' = [sLog EXCEPT ![c] = @ \o <<op, "Close">>]
       ELSE /\ sLog' = [sLog EXCEPT ![c] = Append(@, op)]
            /\ UNCHANGED stream
  /\ UNCHANGED sKind

\* A caller invokes SendMessage ("msg") or SendRequest ("req").
SendStart(c) ==
  /\ UNCHANGED <<nodeVars, findVars, recvVars, regVars>>
  /\ sPc[c] = "idle"
  /\ \E k \in {"msg", "req"} : sKind' = [sKind EXCEPT ![c] = k]
  /\ sPc' = [sPc EXCEPT ![c] = "connect"]
  /\ UNCHANGED <<sResult, stream, sLog, sFailed>>

\* SendConnect dialling again when Connect fails.
SendConnectRetry(c) ==
  /\ UNCHANGED <<nodeVars, findVars, recvVars, regVars>>
  /\ sPc[c] = "connect"
  /\ \E ok \in BOOLEAN :
       SendStep(c, "Connect", IF ok THEN "newstream" ELSE "connect")

\* bsnet.host.Connect (part_000 47-49, 72-74)
SendConnect(c) ==
  /\ UNCHANGED <<nodeVars, findVars, recvVars, regVars>>
  /\ sPc[c] = "connect"
  /\ \E ok \in BOOLEAN :
       IF ok THEN SendStep(c, "Connect", "newstream")
             ELSE SendFail(c, "Connect", "ConnectError")

\* bsnet.host.NewStream and defer s.Close() (part_000 51-55, 76-80)
SendNewStream(c) ==
  /\ UNCHANGED <<nodeVars, findVars, recvVars, regVars>>
  /\ sPc[c] = "newstream"
  /\ \E ok \in BOOLEAN :
       IF ok
         THEN /\ sPc' = [sPc EXCEPT ![c] = "write"]
              /\ sLog' = [sLog EXCEPT ![c] = Append(@, "NewStream")]
              /\ stream' = [stream EXCEPT ![c] = "open"]
              /\ UNCHANGED <<sKind, sResult, sFailed>>
         ELSE SendFail(c, "NewStream", "StreamError")

\* outgoing.ToNet(s) (part_000 57-62, 82-85): SendMessage returns after it.
SendWrite(c) ==
  /\ UNCHANGED <<nodeVars, findVars, recvVars, regVars>>
  /\ sPc[c] = "write"
  /\ \E ok \in BOOLEAN :
       IF ~ok THEN SendReturn(c, "ToNet", FALSE)
       ELSE IF sKind[c] = "msg" THEN SendReturn(c, "ToNet", TRUE)
       ELSE SendStep(c, "ToNet", "read")

\* bsmsg.FromNet(s) (part_000 87-93)
SendRead(c) ==
  /\ UNCHANGED <<nodeVars, findVars, recvVars, regVars>>
  /\ sPc[c] = "read"
  /\ \E ok \in BOOLEAN :
       SendReturn(c, "FromNet", ok)

SendNext ==
  \E c \in SendCalls :
    \/ SendStart(c)
    \/ SendConnect(c)
    \/ SendNewStream(c)
    \/ SendWrite(c)
    \/ SendRead(c)

\* ------------------------------------------------------------- FindProvidersAsync
FindInit ==
  /\ fpPc = "idle"
  /\ routSeq = <<>>
  /\ routClosed = FALSE
  /\ cur = None
  /\ outSeq = <<>>
  /\ outClosed = FALSE
  /\ ctxCancelled = FALSE
  /\ addrBook = {}

\* RecordsAddrs without the comparison with the host's own id.
RecordsAddrsAlways(id) == TRUE

\* part_000 107: addresses are recorded for every provider but the local node.
RecordsAddrs(id) == id # HostID

\* part_000 110-114: the id the select offers on out for provider `id`: info.ID,
\* whoever the provider is.
Offered(id) == id

\* LeavesOnDone for a bare send on out, with no ctx.Done() case.
LeavesOnDoneNever(cancelled) == FALSE

\* part_000 111-112: the select leaves through ctx.Done() when the context is done.
LeavesOnDone(cancelled) == cancelled

\* FindProvidersAsync is called: out is made and the goroutine started, which
\* starts Routing's search (part_000 102-105).
FP_Start ==
  /\ UNCHANGED <<nodeVars, sendVars, recvVars, regVars>>
  /\ fpPc = "idle"
  /\ fpPc' = "range"
  /\ UNCHANGED <<routSeq, routClosed, cur, outSeq, outClosed, ctxCancelled, addrBook>>

\* Routing delivers a provider and the range loop takes it and records its
\* addresses (part_000 106-109).
FP_Receive ==
  /\ UNCHANGED <<nodeVars, sendVars, recvVars, regVars>>
  /\ fpPc = "range"
  /\ ~routClosed
  /\ Len(routSeq) < MaxProviders
  /\ \E id \in Providers :
       /\ routSeq' = Append(routSeq, id)
       /\ cur' = id
       /\ addrBook' = IF RecordsAddrs(id) THEN addrBook \cup {id} ELSE addrBook
  /\ fpPc' = "select"
  /\ UNCHANGED <<routClosed, outSeq, outClosed, ctxCancelled>>

\* Routing ends its sequence: it closes the providers channel.
Routing_Close ==
  /\ UNCHANGED <<nodeVars, sendVars, recvVars, regVars>>
  /\ fpPc # "idle"
  /\ ~routClosed
  /\ routClosed' = TRUE
  /\ UNCHANGED <<fpPc, routSeq, cur, outSeq, outClosed, ctxCancelled, addrBook>>

\* The select's send case: the consumer receives the id from out (part_000 113).
FP_Handoff ==
  /\ UNCHANGED <<nodeVars, sendVars, recvVars, regVars>>
  /\ fpPc = "select"
  /\ outSeq' = Append(outSeq, Offered(cur))
  /\ fpPc' = "range"
  /\ UNCHANGED <<routSeq, routClosed, cur, outClosed, ctxCancelled, addrBook>>

\* The select's ctx.Done() case: the goroutine returns and the deferred close(out)
\* runs (part_000 104, 111-112).
FP_Done ==
  /\ UNCHANGED <<nodeVars, sendVars, recvVars, regVars>>
  /\ fpPc = "select"
  /\ LeavesOnDone(ctxCancelled)
  /\ fpPc' = "done"
  /\ outClosed' = TRUE
  /\ UNCHANGED <<routSeq, routClosed, cur, outSeq, ctxCancelled, addrBook>>

\* The range loop ends with Routing's channel closed; the deferred close(out) runs
\* (part_000 104, 106).
FP_RangeEnd ==
  /\ UNCHANGED <<nodeVars, sendVars, recvVars, regVars>>
  /\ fpPc = "range"
  /\ routClosed
  /\ fpPc' = "done"
  /\ outClosed' = TRUE
  /\ UNCHANGED <<routSeq, routClosed, cur, outSeq, ctxCancelled, addrBook>>

\* The caller cancels the context it passed.
Cancel ==
  /\ UNCHANGED <<nodeVars, sendVars, recvVars, regVars>>
  /\ ~ctxCancelled
  /\ ctxCancelled' = TRUE
  /\ UNCHANGED <<fpPc, routSeq, routClosed, cur, outSeq, outClosed, addrBook>>

FindNext ==
  \/ FP_Start
  \/ FP_Receive
  \/ Routing_Close
  \/ FP_Handoff
  \/ FP_Done
  \/ FP_RangeEnd
  \/ Cancel

\* ------------------------------------------------------------- inbound streams, events
\* Inbound streams the host hands to handleNewStream, each in a goroutine of its own.
MaxStreams == 2
\* Events the host's network delivers to the listener registered by NewFromIpfsHost.
MaxEvents == 1
\* SetDelegate calls.
MaxDelegates == 1

Streams == 1..MaxStreams
Receivers == {"r1", "r2"}
EventKinds == {"Connected", "Disconnected", "OpenedStream", "ClosedStream"}

\* NewFromIpfsHost (part_000 17-28): the stream handler and the listener are
\* registered, the receiver is not set.
RecvInit ==
  /\ receiver = None
  /\ delegates = 0
  /\ hPc = [s \in Streams |-> "idle"]
  /\ hOk = [s \in Streams |-> None]
  /\ hClose = [s \in Streams |-> 0]
  /\ hLog = [s \in Streams |-> <<>>]
  /\ errPending = [s \in Streams |-> None]
  /\ errHook = [s \in Streams |-> 0]
  /\ msgHook = [s \in Streams |-> 0]
  /\ events = <<>>
  /\ notes = <<>>
  /\ crashed = FALSE

\* impl.SetDelegate (part_000 96-98)
SetDelegate ==
  /\ UNCHANGED <<nodeVars, sendVars, findVars, regVars>>
  /\ ~crashed
  /\ delegates < MaxDelegates
  /\ \E r \in Receivers : receiver' = r
  /\ delegates' = delegates + 1
  /\ UNCHANGED <<hPc, hOk, hClose, hLog, errPending, errHook, msgHook, events, notes,
                 crashed>>

\* s.Conn().RemotePeer() (part_000 140): the peer at the other end of stream s.
RemotePeer(s) == IF s % 2 = 1 THEN "idB" ELSE "idC"

\* HandlerReturn with s.Close() called where it is written, not deferred.
HandlerReturnCloseFirst(s, calls) ==
  /\ hPc' = [hPc EXCEPT ![s] = "done"]
  /\ hClose' = [hClose EXCEPT ![s] = @ + 1]
  /\ hLog' = [hLog EXCEPT ![s] = (@ \o <<(<<"Close">>)>>) \o calls]

\* The handler makes the calls `calls` and returns: the deferred s.Close() runs
\* after them (part_000 127).
HandlerReturn(s, calls) ==
  /\ hPc' = [hPc EXCEPT ![s] = "done"]
  /\ hClose' = [hClose EXCEPT ![s] = @ + 1]
  /\ hLog' = [hLog EXCEPT ![s] = (@ \o calls) \o <<(<<"Close">>)>>]

\* The host calls handleNewStream for an inbound stream (part_000 126-127).
H_Start(s) ==
  /\ UNCHANGED <<nodeVars, sendVars, findVars, regVars>>
  /\ ~crashed
  /\ hPc[s] = "idle"
  /\ hPc' = [hPc EXCEPT ![s] = "check"]
  /\ UNCHANGED <<receiver, delegates, hOk, hClose, hLog, errPending, errHook, msgHook,
                 events, notes, crashed>>

\* if bsnet.receiver == nil { return } (part_000 129-131)
H_Check(s) ==
  /\ UNCHANGED <<nodeVars, sendVars, findVars, regVars>>
  /\ ~crashed
  /\ hPc[s] = "check"
  /\ IF receiver = None
       THEN HandlerReturn(s, <<>>)
       ELSE hPc' = [hPc EXCEPT ![s] = "read"] /\ UNCHANGED <<hClose, hLog>>
  /\ UNCHANGED <<receiver, delegates, hOk, errPending, errHook, msgHook, events, notes,
                 crashed>>

\* AfterDecode with the return after the error branch missing.
AfterDecodeFallsThrough(ok) == "deliver"

\* Where the handler goes after bsmsg.FromNet (part_000 133-138): on to the
\* delivery, or out through the error branch's return.
AfterDecode(ok) == IF ok THEN "deliver" ELSE "done"

\* received, err := bsmsg.FromNet(s); on an error `go bsnet.receiver.ReceiveError(err)`
\* binds the call to the receiver installed now and the handler returns
\* (part_000 133-138).
H_Read(s) ==
  /\ UNCHANGED <<nodeVars, sendVars, findVars, regVars>>
  /\ ~crashed
  /\ hPc[s] = "read"
  /\ \E ok \in BOOLEAN :
       /\ hOk' = [hOk EXCEPT ![s] = IF ok THEN "ok" ELSE "bad"]
       /\ errPending' = IF ok THEN errPending ELSE [errPending EXCEPT ![s] = receiver]
       /\ IF AfterDecode(ok) = "done"
            THEN HandlerReturn(s, <<(<<"FromNet">>)>>)
            ELSE /\ hPc' = [hPc EXCEPT ![s] = "deliver"]
                 /\ hLog' = [hLog EXCEPT ![s] = Append(@, <<"FromNet">>)]
                 /\ UNCHANGED hClose
  /\ UNCHANGED <<receiver, delegates, errHook, msgHook, events, notes, crashed>>

\* bsnet.receiver.ReceiveMessage(ctx, p, received), p being the stream's remote
\* peer and received the message decoded from stream s, here s; then the handler
\* returns (part_000 140-143).
H_Deliver(s) ==
  /\ UNCHANGED <<nodeVars, sendVars, findVars, regVars>>
  /\ ~crashed
  /\ hPc[s] = "deliver"
  /\ msgHook' = [msgHook EXCEPT ![s] = @ + 1]
  /\ HandlerReturn(s, <<(<<"ReceiveMessage", RemotePeer(s), s>>)>>)
  /\ UNCHANGED <<receiver, delegates, hOk, errPending, errHook, events, notes, crashed>>

\* The goroutine spawned for ReceiveError runs (part_000 135).
H_ErrorHook(s) ==
  /\ UNCHANGED <<nodeVars, sendVars, findVars, regVars>>
  /\ ~crashed
  /\ errPending[s] # None
  /\ errHook' = [errHook EXCEPT ![s] = @ + 1]
  /\ errPending' = [errPending EXCEPT ![s] = None]
  /\ UNCHANGED <<receiver, delegates, hPc, hOk, hClose, hLog, msgHook, events, notes,
                 crashed>>

\* The receiver method a listener callback calls (part_000 152-161); the stream
\* callbacks have empty bodies.
Notification(kind) ==
  CASE kind = "Connected" -> "PeerConnected"
    [] kind = "Disconnected" -> "PeerDisconnected"
    [] OTHER -> None

\* The host's network calls a listener callback for the remote peer p
\* (part_000 146-161). Connected and Disconnected call a method of
\* nn.impl().receiver without a nil check: with no receiver set the call panics.
Notify ==
  /\ UNCHANGED <<nodeVars, sendVars, findVars, regVars>>
  /\ ~crashed
  /\ Len(events) < MaxEvents
  /\ \E kind \in EventKinds, p \in PeerIDs :
       /\ events' = Append(events, [kind |-> kind, peer |-> p])
       /\ IF Notification(kind) = None
            THEN UNCHANGED <<notes, crashed>>
            ELSE IF receiver = None
              THEN crashed' = TRUE /\ UNCHANGED notes
              ELSE /\ notes' = Append(notes, [kind |-> Notification(kind), peer |-> p,
                                              to |-> receiver])
                   /\ UNCHANGED crashed
  /\ UNCHANGED <<receiver, delegates, hPc, hOk, hClose, hLog, errPending, errHook,
                 msgHook>>

RecvNext ==
  \/ SetDelegate
  \/ Notify
  \/ \E s \in Streams :
       \/ H_Start(s)
       \/ H_Check(s)
       \/ H_Read(s)
       \/ H_Deliver(s)
       \/ H_ErrorHook(s)

\* ============================================================= the peer registry
\* Tasks that call the peerstore concurrently.
MaxTasks == 2
\* Registry operations begun in a run; each allocates at most one peer object.
MaxRegOps == 3

RegTasks == 1..MaxTasks
Refs == 1..MaxRegOps
\* The nil Peer, and the absence of a map entry.
NoPeer == 0

\* peer.ID values passed in: nil, the empty (zero-length) id, a well-formed id.
RegIDs == {None, "", "idA"}
\* string(ID): a nil and an empty id give the same key.
Key(i) == IF i = None THEN "" ELSE i
RegKeys == {"", "idA", "idB"}
PubKeys == {"pkA", "pkB"}

\* IDFromPubKey: the hash of the public key.
IDFromPubKey(pk) == IF pk = "pkA" THEN "idA" ELSE "idB"

\* An unallocated slot, and &peer{id: .., pubKey: .., privKey: ..}.
NoObj == [alloc |-> FALSE, id |-> None, pub |-> None, priv |-> None, addrs |-> {}]
NewPeer(id, pub, priv, addrs) ==
  [alloc |-> TRUE, id |-> id, pub |-> pub, priv |-> priv, addrs |-> addrs]

\* The records a caller constructs and hands to Add: id only, with an address,
\* with its key pair.
CallerRecords ==
  {NewPeer("idA", None, None, {}), NewPeer("idA", None, None, {"addr1"}),
   NewPeer("idA", "pkA", "skA", {})}

\* The slot the next allocation takes.
FreeRef(heap) == CHOOSE r \in Refs : ~heap[r].alloc /\ \A q \in 1..(r - 1) : heap[q].alloc

\* existing.Update(peer): the address sets are unioned and a key is adopted when
\* the existing record lacks it.
Update(e, p) ==
  [e EXCEPT !.addrs = e.addrs \cup p.addrs,
            !.pub = IF e.pub = None THEN p.pub ELSE e.pub,
            !.priv = IF e.priv = None THEN p.priv ELSE e.priv]

\* Add without the call of Update.
AddSkipsUpdate(d, heap, p) ==
  LET k == Key(heap[p].id) IN
    IF d[k] = NoPeer
      THEN [data |-> [d EXCEPT ![k] = p], peers |-> heap, ret |-> p]
      ELSE [data |-> d, peers |-> heap, ret |-> d[k]]

\* Add storing the caller's record over the existing one.
AddReplaces(d, heap, p) ==
  LET k == Key(heap[p].id) IN
    [data |-> [d EXCEPT ![k] = p], peers |-> heap, ret |-> p]

\* peerstore.Add (peerstore.go 81-96) on the map d and the objects heap, for the
\* peer p: the map and the objects afterwards, and the Peer returned.
Add(d, heap, p) ==
  LET k == Key(heap[p].id)
      existing == d[k]
  IN IF existing = NoPeer
       THEN [data |-> [d EXCEPT ![k] = p], peers |-> heap, ret |-> p]
       ELSE IF p = existing
         THEN [data |-> d, peers |-> heap, ret |-> p]
         ELSE [data |-> d,
               peers |-> [heap EXCEPT ![existing] = Update(heap[existing], heap[p])],
               ret |-> existing]

\* KeysMatch accepting any pair.
KeysMatchAlways(sk, pk) == TRUE

\* pk.Equals(sk.GetPublic()) (peerstore.go 123-127)
KeysMatch(sk, pk) == pk = GetPublic(sk)

\* CanLock letting a task in while another holds the mutex.
CanLockShared(l) == TRUE

\* ps.Lock() returns when no task holds the mutex.
CanLock(l) == l = 0

NoOp == [op |-> None, id |-> None, sk |-> None, pk |-> None, arg |-> NoPeer]
NoSnap == [k \in RegKeys |-> NoPeer]
NoRet == [task |-> 0, op |-> None, id |-> None, sk |-> None, pk |-> None,
          arg |-> NoPeer, ref |-> NoPeer, err |-> None, snap |-> NoSnap]

\* NewPeerstore (peerstore.go 30-34)
RegInit ==
  /\ data = [k \in RegKeys |-> NoPeer]
  /\ peers = [r \in Refs |-> NoObj]
  /\ lock = 0
  /\ rPc = [t \in RegTasks |-> "idle"]
  /\ rOp = [t \in RegTasks |-> NoOp]
  /\ rRet = NoRet
  /\ regOps = 0
  /\ focAll = [k \in RegKeys |-> {}]
  /\ focSince = [k \in RegKeys |-> <<>>]
  /\ regPanic = FALSE

\* Task t calls operation o and its ps.Lock() returns: the task holds the mutex
\* (a task waiting for the mutex has changed nothing yet).
Begin(t, o) ==
  /\ ~regPanic
  /\ rPc[t] = "idle"
  /\ regOps < MaxRegOps
  /\ CanLock(lock)
  /\ lock' = t
  /\ regOps' = regOps + 1
  /\ rOp' = [rOp EXCEPT ![t] = o]
  /\ rPc' = [rPc EXCEPT ![t] = "body"]

\* Task t's operation returns (ref, err) and, for All, the snapshot.
Returns(t, o, ref, err, snap) ==
  /\ rRet' = [task |-> t, op |-> o.op, id |-> o.id, sk |-> o.sk, pk |-> o.pk,
              arg |-> o.arg, ref |-> ref, err |-> err, snap |-> snap]
  /\ rPc' = [rPc EXCEPT ![t] = "idle"]
  /\ rOp' = [rOp EXCEPT ![t] = NoOp]

\* defer ps.Unlock()
Unlock(t) == lock' = IF lock = t THEN 0 ELSE lock

\* A task calls Get, FindOrCreate or Delete with an id, or All.
CallById(t) ==
  /\ UNCHANGED <<nodeVars, sendVars, findVars, recvVars>>
  /\ \E op \in {"Get", "FindOrCreate", "Delete"}, i \in RegIDs :
       Begin(t, [NoOp EXCEPT !.op = op, !.id = i])
  /\ UNCHANGED <<data, peers, rRet, focAll, focSince, regPanic>>

CallAll(t) ==
  /\ UNCHANGED <<nodeVars, sendVars, findVars, recvVars>>
  /\ Begin(t, [NoOp EXCEPT !.op = "All"])
  /\ UNCHANGED <<data, peers, rRet, focAll, focSince, regPanic>>

\* A task calls Add with a record it constructed.
CallAddNew(t) ==
  /\ UNCHANGED <<nodeVars, sendVars, findVars, recvVars>>
  /\ \E rec \in CallerRecords :
       /\ Begin(t, [NoOp EXCEPT !.op = "Add", !.id = rec.id, !.arg = FreeRef(peers)])
       /\ peers' = [peers EXCEPT ![FreeRef(peers)] = rec]
  /\ UNCHANGED <<data, rRet, focAll, focSince, regPanic>>

\* A task calls Add with a Peer it was given earlier (as initIdentity does with the
\* Peer FindOrCreate returned, peerstore.go 399-404).
CallAddKnown(t) ==
  /\ UNCHANGED <<nodeVars, sendVars, findVars, recvVars>>
  /\ \E r \in Refs :
       /\ peers[r].alloc
       /\ Begin(t, [NoOp EXCEPT !.op = "Add", !.id = peers[r].id, !.arg = r])
  /\ UNCHANGED <<data, peers, rRet, focAll, focSince, regPanic>>

\* WithID up to its call of Add (peerstore.go 141-143): p := &peer{id: id}.
CallWithID(t) ==
  /\ UNCHANGED <<nodeVars, sendVars, findVars, recvVars>>
  /\ \E i \in RegIDs :
       /\ Begin(t, [NoOp EXCEPT !.op = "WithID", !.id = i, !.arg = FreeRef(peers)])
       /\ peers' = [peers EXCEPT ![FreeRef(peers)] = NewPeer(i, None, None, {})]
  /\ UNCHANGED <<data, rRet, focAll, focSince, regPanic>>

\* WithKeyPair up to Add's ps.Lock() (peerstore.go 118-136): both keys nil is an
\* error; sk.GetPublic() on a nil sk panics; a supplied pk that is not sk's public
\* key is the key mismatch error; IDFromPubKey may fail (`hashOk`); otherwise the
\* peer is constructed with the id, pk and sk.
CallWithKeyPair(t) ==
  /\ UNCHANGED <<nodeVars, sendVars, findVars, recvVars>>
  /\ ~regPanic
  /\ rPc[t] = "idle"
  /\ regOps < MaxRegOps
  /\ regOps' = regOps + 1
  /\ \E sk \in PrivKeys \cup {None}, pk \in PubKeys \cup {None}, hashOk \in BOOLEAN :
       LET o == [NoOp EXCEPT !.op = "WithKeyPair", !.sk = sk, !.pk = pk] IN
       IF sk = None /\ pk = None
         THEN Returns(t, o, NoPeer, "NilKeys", NoSnap) /\ UNCHANGED <<peers, lock, regPanic>>
       ELSE IF sk = None
         THEN /\ regPanic' = TRUE
              /\ UNCHANGED <<peers, lock, rPc, rOp, rRet>>
       ELSE IF pk # None /\ ~KeysMatch(sk, pk)
         THEN Returns(t, o, NoPeer, "KeyMismatch", NoSnap) /\ UNCHANGED <<peers, lock, regPanic>>
       ELSE IF ~hashOk
         THEN Returns(t, o, NoPeer, "HashError", NoSnap) /\ UNCHANGED <<peers, lock, regPanic>>
       ELSE LET pub == IF pk = None THEN GetPublic(sk) ELSE pk
                id == IDFromPubKey(pub)
            IN /\ CanLock(lock)
               /\ lock' = t
               /\ rOp' = [rOp EXCEPT ![t] = [o EXCEPT !.id = id, !.arg = FreeRef(peers)]]
               /\ rPc' = [rPc EXCEPT ![t] = "body"]
               /\ peers' = [peers EXCEPT ![FreeRef(peers)] = NewPeer(id, pub, sk, {})]
               /\ UNCHANGED <<rRet, regPanic>>
  /\ UNCHANGED <<data, focAll, focSince>>

\* peerstore.Get under the lock (peerstore.go 38-49)
R_Get(t) ==
  /\ UNCHANGED <<nodeVars, sendVars, findVars, recvVars>>
  /\ ~regPanic
  /\ rPc[t] = "body" /\ rOp[t].op = "Get"
  /\ LET i == rOp[t].id IN
       IF i = None THEN Returns(t, rOp[t], NoPeer, "InvalidArgument", NoSnap)
       ELSE IF data[Key(i)] = NoPeer THEN Returns(t, rOp[t], NoPeer, "NotPresent", NoSnap)
       ELSE Returns(t, rOp[t], data[Key(i)], None, NoSnap)
  /\ Unlock(t)
  /\ UNCHANGED <<data, peers, regOps, focAll, focSince, regPanic>>

\* A FindOrCreate call returns the Peer r for key k.
FocReturns(t, k, r) ==
  /\ Returns(t, rOp[t], r, None, NoSnap)
  /\ focAll' = [focAll EXCEPT ![k] = @ \cup {r}]
  /\ focSince' = [focSince EXCEPT ![k] = Append(@, r)]

\* peerstore.FindOrCreate under the lock, up to the lookup (peerstore.go 53-62):
\* a nil id panics (the deferred Unlock runs); a Peer found is returned.
R_Find(t) ==
  /\ UNCHANGED <<nodeVars, sendVars, findVars, recvVars>>
  /\ ~regPanic
  /\ rPc[t] = "body" /\ rOp[t].op = "FindOrCreate"
  /\ LET i == rOp[t].id IN
       IF i = None
         THEN /\ regPanic' = TRUE
              /\ Unlock(t)
              /\ UNCHANGED <<rPc, rOp, rRet, focAll, focSince>>
       ELSE IF data[Key(i)] # NoPeer
         THEN /\ FocReturns(t, Key(i), data[Key(i)])
              /\ Unlock(t)
              /\ UNCHANGED regPanic
         ELSE /\ rPc' = [rPc EXCEPT ![t] = "insert"]
              /\ UNCHANGED <<lock, rOp, rRet, focAll, focSince, regPanic>>
  /\ UNCHANGED <<data, peers, regOps>>

\* FindOrCreate when the lookup found nothing (peerstore.go 63-78): a bare peer is
\* constructed, stored under the id's key and returned.
R_Insert(t) ==
  /\ UNCHANGED <<nodeVars, sendVars, findVars, recvVars>>
  /\ ~regPanic
  /\ rPc[t] = "insert"
  /\ LET r == FreeRef(peers)
         k == Key(rOp[t].id)
     IN /\ peers' = [peers EXCEPT ![r] = NewPeer(rOp[t].id, None, None, {})]
        /\ data' = [data EXCEPT ![k] = r]
        /\ FocReturns(t, k, r)
  /\ Unlock(t)
  /\ UNCHANGED <<regOps, regPanic>>

\* peerstore.Add under the lock (peerstore.go 81-96), called directly or by WithID
\* and WithKeyPair, which drop what Add returns and return their own p
\* (peerstore.go 135-137, 142-144).
R_Add(t) ==
  /\ UNCHANGED <<nodeVars, sendVars, findVars, recvVars>>
  /\ ~regPanic
  /\ rPc[t] = "body" /\ rOp[t].op \in {"Add", "WithID", "WithKeyPair"}
  /\ LET a == Add(data, peers, rOp[t].arg) IN
       /\ data' = a.data
       /\ peers' = a.peers
       /\ Returns(t, rOp[t], IF rOp[t].op = "Add" THEN a.ret ELSE rOp[t].arg, None, NoSnap)
  /\ Unlock(t)
  /\ UNCHANGED <<regOps, focAll, focSince, regPanic>>

\* peerstore.Delete (peerstore.go 98-104)
R_Delete(t) ==
  /\ UNCHANGED <<nodeVars, sendVars, findVars, recvVars>>
  /\ ~regPanic
  /\ rPc[t] = "body" /\ rOp[t].op = "Delete"
  /\ data' = [data EXCEPT ![Key(rOp[t].id)] = NoPeer]
  /\ focSince' = [focSince EXCEPT ![Key(rOp[t].id)] = <<>>]
  /\ Returns(t, rOp[t], NoPeer, None, NoSnap)
  /\ Unlock(t)
  /\ UNCHANGED <<peers, regOps, focAll, regPanic>>

\* peerstore.All (peerstore.go 106-115): a copy of the map.
R_All(t) ==
  /\ UNCHANGED <<nodeVars, sendVars, findVars, recvVars>>
  /\ ~regPanic
  /\ rPc[t] = "body" /\ rOp[t].op = "All"
  /\ Returns(t, rOp[t], NoPeer, None, data)
  /\ Unlock(t)
  /\ UNCHANGED <<data, peers, regOps, focAll, focSince, regPanic>>

RegNext ==
  \E t \in RegTasks :
    \/ CallById(t)
    \/ CallAll(t)
    \/ CallAddNew(t)
    \/ CallAddKnown(t)
    \/ CallWithID(t)
    \/ CallWithKeyPair(t)
    \/ R_Get(t)
    \/ R_Find(t)
    \/ R_Insert(t)
    \/ R_Add(t)
    \/ R_Delete(t)
    \/ R_All(t)

\* ------------------------------------------------------------- specification
Init == NodeInit /\ SendInit /\ FindInit /\ RecvInit /\ RegInit

Next ==
  \/ F_Standard
  \/ F_Started
  \/ F_Rollback
  \/ F_NewNode
  \/ \E t \in Callers : Call(t)
  \/ \E t \in Calls : StartOnlineServices(t)
  \/ BootstrapCall
  \/ SetupOfflineRouting
  \/ Close

vars == <<nodeVars, sendVars, findVars, recvVars, regVars>>

\* The node: the factories, StartOnlineServices, Bootstrap, teardown.
Spec == Init /\ [][Next]_vars

\* The adapter's SendMessage and SendRequest.
SendSpec == Init /\ [][SendNext]_vars

\* The adapter's FindProvidersAsync.
FindSpec == Init /\ [][FindNext]_vars

\* The adapter's inbound side: handleNewStream, SetDelegate, the listener.
RecvSpec == Init /\ [][RecvNext]_vars

\* The peer registry: tasks calling the peerstore concurrently.
RegSpec == Init /\ [][RegNext]_vars

\* FindProvidersAsync with the scheduling the runtime gives: the goroutine, once it
\* can leave its select through ctx.Done() or leave its range loop, does so, and
\* Routing ends its sequence once the context is done.
FindLiveSpec ==
  /\ FindSpec
  /\ WF_vars(FP_Done)
  /\ WF_vars(FP_RangeEnd)
  /\ WF_vars(ctxCancelled /\ Routing_Close)

\* ============================================================= claims: the node
IsPrefix(a, b) == Len(a) <= Len(b) /\ \A i \in 1..Len(a) : a[i] = b[i]

\* A resource a call built has been released: Close was called on it, or, for a
\* reprovider loop, the node's context was closed.
IsClosed(r) ==
  IF r.res = "Reprovider" THEN ctxDone
  ELSE \E i \in 1..Len(closeLog) : closeLog[i] = r

\* The call ended with one of its steps failing.
StepFailed(t) == pc[t] = "done" /\ result[t] \notin {"ok", "AlreadyOnline"}

\* The failure has reached the caller: the factory's caller for call 0.
ErrorReturned(t) == StepFailed(t) /\ (t = 0 => fpc = "failed")

\* C2: whenever a step of StartOnlineServices failed and the error has been
\* returned to the caller, every resource the call built (host, routing,
\* bootstrapper, reprovider loop) has been torn down, in the Online factory and
\* on a direct call alike.
C2_FailedStartTornDown ==
  \A t \in Calls : ErrorReturned(t) => \A r \in built[t] : IsClosed(r)

\* The part of C2 the code keeps: the Online factory's rollback.
FactoryRollbackClean ==
  ErrorReturned(0) => \A r \in built[0] : IsClosed(r)

NewCloses == {closeLog'[i].res : i \in (Len(closeLog) + 1)..Len(closeLog')}

C6_AlreadyOnlineNoAction ==
  [][\A t \in Calls :
       (pc[t] = "check" /\ pc'[t] # "check" /\ n.PeerHost # NoInst) =>
         /\ pc'[t] = "done"
         /\ result'[t] = "AlreadyOnline"
         /\ n' = n /\ ps' = ps
         /\ hostsBuilt' = hostsBuilt /\ reprovLoops' = reprovLoops /\ bootSeq' = bootSeq
         /\ built' = built /\ closeLog' = closeLog]_vars

C6_Witness ==
  \E t \in Callers : pc[t] = "done" /\ result[t] = "AlreadyOnline" /\ n.PeerHost # NoInst

\* The calls that constructed a host.
HostBuilders == {t \in Calls : \E r \in built[t] : r.res = "PeerHost"}

\* C7 as stated: under any interleaving at most one call constructs a host.
C7_AtMostOneHost == Cardinality(HostBuilders) <= 1

\* C7 (amended): while no two calls were in flight at the same time, at most one
\* call constructed a host and every other call that returned, returned AlreadyOnline
\* once a host was constructed.
C7_SerializedOneHost ==
  ~overlap =>
    /\ Cardinality(HostBuilders) <= 1
    /\ \A t \in Calls :
         (HostBuilders # {} /\ t \notin HostBuilders /\ pc[t] = "done")
           => result[t] = "AlreadyOnline"

C7_Witness ==
  /\ ~overlap
  /\ \E t, u \in Callers :
       /\ t \in HostBuilders /\ pc[t] = "done"
       /\ u # t /\ pc[u] = "done" /\ result[u] = "AlreadyOnline"

\* The place of a resource in the teardown order the spec gives.
ClaimedRank(res) ==
  CASE res = "Bootstrapper" -> 1
    [] res = "Repo" -> 2
    [] res = "Blocks" -> 3
    [] res = "PeerHost" -> 5
    [] OTHER -> 4

\* C8: teardown's Close calls are made in one fixed order: the bootstrapper first,
\* then the repo, then the block service, the host last.
C8_TeardownOrder ==
  td.ran =>
    /\ \A i, j \in 1..Len(td.calls) :
         i < j => ClaimedRank(td.calls[i].res) < ClaimedRank(td.calls[j].res)
    /\ \A i \in 1..Len(td.calls) :
         /\ td.calls[i].res = "PeerHost" => i = Len(td.calls)
         /\ td.calls[i].res = "Bootstrapper" => i = 1

C8_Witness ==
  /\ td.ran
  /\ Len(td.calls) = 5
  /\ td.calls[1].res = "Bootstrapper"
  /\ td.calls[5].res = "PeerHost"

\* C9: teardown calls Close on every installed resource whatever the earlier Close
\* calls returned, and reports the error of the first Close that failed, or no
\* error when none failed.
C9_TeardownCollects ==
  td.ran =>
    /\ \A r \in td.installed :
         \E i \in 1..Len(td.calls) : td.calls[i].res = r.res /\ td.calls[i].id = r.id
    /\ (td.err = None) <=> (\A i \in 1..Len(td.calls) : td.calls[i].ok)
    /\ td.err # None =>
         \E i \in 1..Len(td.calls) :
           /\ ~td.calls[i].ok
           /\ td.err = td.calls[i].res
           /\ \A j \in 1..(i - 1) : td.calls[j].ok

C9_Witness ==
  /\ td.ran
  /\ Len(td.calls) >= 4
  /\ ~td.calls[1].ok
  /\ ~td.calls[3].ok
  /\ td.calls[Len(td.calls)].res = "PeerHost"
  /\ td.err = td.calls[1].res

\* The order of the steps the spec gives.
ClaimedOrder ==
  <<"check", "keycheck", "keyload", "host", "routing", "exchange", "namesys",
    "reprovider", "bootstrap">>

\* C10: every call executes its steps in the order key, host, routing, exchange,
\* naming, reprovider, bootstrap, and no capability is installed while an earlier
\* one is absent.
C10_StepOrder ==
  /\ \A t \in Calls : IsPrefix(stepLog[t], ClaimedOrder)
  /\ n.PeerHost # NoInst => (n.PrivateKey # None /\ ps.priv = n.PrivateKey)
  /\ n.Routing = "dht" => n.PeerHost # NoInst
  /\ n.Exchange = "bitswap" => n.Routing = "dht"
  /\ n.Namesys => n.Exchange = "bitswap"
  /\ n.Reprovider => n.Namesys
  /\ \A t \in Calls : bootOutcome[t] # None => n.Reprovider

C10_Witness ==
  \E t \in Callers : stepLog[t] = ClaimedOrder /\ result[t] = "ok"

\* The bootstrappers started and not closed.
RunningBootstrappers ==
  {b \in 1..bootSeq : ~\E i \in 1..Len(closeLog) : closeLog[i] = Closer("Bootstrapper", b)}

\* C17: the bootstrappers Bootstrap calls started are all closed except possibly the
\* one started last, and a running one is the one n.Bootstrapper holds: Bootstrap
\* closes the previous bootstrapper when it starts (or fails to start) a new one.
C17_OneBootstrapper ==
  /\ RunningBootstrappers \subseteq {bootSeq}
  /\ RunningBootstrappers \subseteq {n.Bootstrapper}

\* Two bootstrappers were started, the first was closed by Bootstrap (no teardown
\* ran) and the second is running.
C17_Witness ==
  /\ bootSeq >= 2
  /\ ~td.ran
  /\ RunningBootstrappers = {bootSeq}
  /\ n.Bootstrapper = bootSeq

\* The capability fields of the node and their unset values.
Capabilities == {"PeerHost", "Routing", "Exchange", "Namesys"}
Unset(f) == CASE f = "PeerHost" -> NoInst [] f = "Namesys" -> FALSE [] OTHER -> None

\* C20: a capability (host, routing, exchange, naming) that is set never changes
\* in a later step, and the exchange the block service was made with is the
\* exchange the node has installed.
C20_CapabilitiesWriteOnce ==
  [][/\ \A f \in Capabilities : n[f] # Unset(f) => n'[f] = n[f]
     /\ n'.Blocks => n'.BlocksExchange = n'.Exchange]_vars

\* C21: on a constructed node whose StartOnlineServices calls, if any, have all
\* returned success, OnlineMode() is true exactly when a host is installed; in
\* particular it is true once a StartOnlineServices call has returned success.
C21_ModeTracksHost ==
  (fpc = "ready" /\ \A t \in Calls : ~InFlight(t) /\ result[t] \in {None, "ok"}) =>
    /\ OnlineMode(n) <=> n.PeerHost # NoInst
    /\ \A t \in Calls : result[t] = "ok" => OnlineMode(n)

\* The keys the peerstore holds under the node's Identity.
StoredKeys(store) == <<store.priv, store.pub>>

ClosedTimes(c) == Cardinality({i \in 1..Len(closeLog) : closeLog[i] = c})

\* The owned resource instances installed on the node so far: every bootstrapper
\* started, every host installed, the repo, the block service.
EverInstalled ==
  {Closer("Bootstrapper", b) : b \in 1..bootSeq}
    \cup {Closer("PeerHost", h) : h \in 1..hostsBuilt}
    \cup (IF n.Repo THEN {Closer("Repo", 1)} ELSE {})
    \cup (IF n.Blocks THEN {Closer("Blocks", 1)} ELSE {})

\* C22 for every interleaving: no installed resource is closed twice, and after
\* Close or a failed factory call every installed resource was closed once.
C22_ClosedOnceAlways ==
  /\ \A c \in EverInstalled : ClosedTimes(c) <= 1
  /\ fpc \in {"closed", "failed"} => \A c \in EverInstalled : ClosedTimes(c) = 1

CloseCount(c) == Cardinality({i \in 1..Len(sLog[c]) : sLog[c][i] = "Close"})

\* C1: a stream SendMessage or SendRequest opened is closed exactly once by the
\* time the call returns, on every exit path; no call closes a stream twice or
\* closes one it never opened.
C1_StreamClosedOnce ==
  \A c \in SendCalls :
    /\ CloseCount(c) <= 1
    /\ stream[c] = "none" => CloseCount(c) = 0
    /\ sPc[c] = "done" =>
         /\ stream[c] # "open"
         /\ stream[c] = "closed" => CloseCount(c) = 1

C1_Witness ==
  \E c, d \in SendCalls :
    /\ sKind[c] = "req" /\ sResult[c] = "ReadError" /\ stream[c] = "closed"
    /\ sKind[d] = "msg" /\ sResult[d] = "WriteError" /\ stream[d] = "closed"

\* C4: the local node's own id is never emitted on FindProvidersAsync's output.
C4_SelfNeverEmitted ==
  \A i \in 1..Len(outSeq) : outSeq[i] # HostID

\* C23: every provider id the consumer received, other than the local node's, had
\* its addresses recorded in the peerstore before it was handed over; the local
\* node's addresses are never recorded by FindProvidersAsync; and the ids received
\* are, in order, a prefix of the sequence Routing delivered.
C23_RecordedThenEmitted ==
  /\ \A i \in 1..Len(outSeq) : outSeq[i] # HostID => outSeq[i] \in addrBook
  /\ (fpPc = "select" /\ cur # HostID) => cur \in addrBook
  /\ HostID \notin addrBook
  /\ IsPrefix(outSeq, routSeq)

\* Routing delivered the local node among other providers, and the consumer has
\* received at least two ids, one of them another peer's.
C23_Witness ==
  /\ Len(outSeq) >= 2
  /\ \E i \in 1..Len(outSeq) : outSeq[i] # HostID
  /\ \E i \in 1..Len(routSeq) : routSeq[i] = HostID

\* C5: once the context is cancelled while the search runs, the goroutine
\* terminates and closes out, whether or not the consumer receives again; nothing
\* is emitted after out is closed.
C5_CancelCloses ==
  /\ (ctxCancelled /\ fpPc # "idle") ~> (fpPc = "done" /\ outClosed)
  /\ [][outClosed => outSeq' = outSeq]_vars

\* The goroutine left through ctx.Done() holding an id nobody received.
C5_Witness ==
  /\ ctxCancelled /\ fpPc = "done" /\ outClosed
  /\ ~routClosed
  /\ Len(outSeq) < Len(routSeq)

\* How many times call c performed `op`.
OpCount(c, op) == Cardinality({i \in 1..Len(sLog[c]) : sLog[c][i] = op})

\* The operations call c performed, the deferred Close left out.
OpsBeforeClose(c) == SelectSeq(sLog[c], LAMBDA o : o # "Close")

\* C18: a send call dials at most once and opens at most one stream; the operation
\* that failed is the last one it performed (nothing is retried, nothing follows
\* but the deferred Close) and the call returns an error; after a failed Connect
\* no stream was opened and nothing written, after a failed NewStream nothing was
\* written; a response is read only by SendRequest and only after the write
\* succeeded, and a failed read is returned as an error.
C18_NoRetryFirstFailure ==
  \A c \in SendCalls :
    /\ OpCount(c, "Connect") <= 1
    /\ OpCount(c, "NewStream") <= 1
    /\ OpCount(c, "ToNet") <= 1
    /\ OpCount(c, "FromNet") <= 1
    /\ sFailed[c] # None =>
         /\ sPc[c] = "done"
         /\ sResult[c] \notin {"ok", None}
         /\ OpsBeforeClose(c)[Len(OpsBeforeClose(c))] = sFailed[c]
    /\ sFailed[c] = "Connect" => sLog[c] = <<"Connect">> /\ stream[c] = "none"
    /\ sFailed[c] = "NewStream" => sLog[c] = <<"Connect", "NewStream">> /\ stream[c] = "none"
    /\ OpCount(c, "FromNet") = 1 =>
         /\ sKind[c] = "req"
         /\ SubSeq(sLog[c], 1, 4) = <<"Connect", "NewStream", "ToNet", "FromNet">>
         /\ sFailed[c] # "ToNet"
    /\ (sPc[c] = "done" /\ sFailed[c] = None) => sResult[c] = "ok"

\* A SendRequest whose write succeeded and whose read failed has returned.
C18_Witness ==
  \E c \in SendCalls :
    /\ sKind[c] = "req" /\ sPc[c] = "done"
    /\ sFailed[c] = "FromNet" /\ sResult[c] = "ReadError"
    /\ \E e \in SendCalls : sFailed[e] = "Connect" /\ sPc[e] = "done"

\* Whether a ReceiveError call spawned for stream s has not run yet.
Pending(s) == IF errPending[s] = None THEN 0 ELSE 1

\* C15: a handler that found a receiver and whose message failed to decode has
\* returned with exactly one ReceiveError call made or spawned for its stream, no
\* ReceiveMessage call and the stream closed once; and whatever happened to other
\* streams, a handler that found a receiver and decoded its message has returned
\* with exactly one ReceiveMessage call, no ReceiveError call and the stream closed
\* once.
C15_MalformedStreamHandled ==
  \A s \in Streams :
    /\ errHook[s] + Pending(s) <= 1
    /\ hOk[s] = "bad" =>
         /\ hPc[s] = "done"
         /\ errHook[s] + Pending(s) = 1
         /\ msgHook[s] = 0
         /\ hClose[s] = 1
    /\ (hOk[s] = "ok" /\ hPc[s] = "done") =>
         /\ msgHook[s] = 1
         /\ errHook[s] + Pending(s) = 0
         /\ hClose[s] = 1

\* A malformed stream was handled and its error hook ran, and another stream's
\* message reached the message hook.
C15_Witness ==
  \E s, u \in Streams :
    /\ hOk[s] = "bad" /\ hPc[s] = "done" /\ errHook[s] = 1
    /\ hOk[u] = "ok" /\ hPc[u] = "done" /\ msgHook[u] = 1

\* How many calls of the kind `op` the handler of stream s has made.
CallsMade(s, op) == Cardinality({i \in 1..Len(hLog[s]) : hLog[s][i][1] = op})

\* The calls a returned handler must have made, by the way it left: without a
\* receiver; with a message that did not decode; with a decoded message.
ExpectedCalls(s) ==
  CASE hOk[s] = None -> <<(<<"Close">>)>>
    [] hOk[s] = "bad" -> <<(<<"FromNet">>), (<<"Close">>)>>
    [] hOk[s] = "ok" ->
         <<(<<"FromNet">>), (<<"ReceiveMessage", RemotePeer(s), s>>), (<<"Close">>)>>

\* C24: a handler never reads more than one message from its stream nor closes it
\* more than once, and closes it only as its last call; a handler that has
\* returned has made exactly these calls, in this order: with no receiver, Close
\* alone; with a receiver, one read, then, if the message decoded, one
\* ReceiveMessage with the stream's remote peer and the decoded message, then
\* Close.
C24_OneReadOneClose ==
  \A s \in Streams :
    /\ CallsMade(s, "FromNet") <= 1
    /\ CallsMade(s, "ReceiveMessage") <= 1
    /\ CallsMade(s, "Close") <= 1
    /\ CallsMade(s, "Close") = hClose[s]
    /\ CallsMade(s, "ReceiveMessage") = msgHook[s]
    /\ hPc[s] # "done" => CallsMade(s, "Close") = 0
    /\ hPc[s] = "done" => hLog[s] = ExpectedCalls(s)

\* Two handlers have returned: one found no receiver and closed its stream, the
\* other read its message, delivered it and then closed its stream.
C24_Witness ==
  \E s, u \in Streams :
    /\ hPc[s] = "done" /\ hOk[s] = None /\ hClose[s] = 1
    /\ hPc[u] = "done" /\ hOk[u] = "ok" /\ Len(hLog[u]) = 3

\* The connect and disconnect events among the events delivered.
PeerEvents == SelectSeq(events, LAMBDA e : Notification(e.kind) # None)

\* C16: the notifications the receiver got are, in order, one PeerConnected for
\* every connect event and one PeerDisconnected for every disconnect event the
\* host delivered, each with the remote peer's id; stream events add none.
C16_EveryEventNotified ==
  /\ Len(notes) = Len(PeerEvents)
  /\ \A i \in 1..Len(notes) :
       /\ notes[i].kind = Notification(PeerEvents[i].kind)
       /\ notes[i].peer = PeerEvents[i].peer

\* ============================================================= claims: the registry
\* Task t's Add (called directly or through WithID / WithKeyPair) takes effect in
\* this step.
AddStep(t) ==
  /\ rPc[t] = "body" /\ rPc'[t] = "idle"
  /\ rOp[t].op \in {"Add", "WithID", "WithKeyPair"}

\* A record that carries its id only.
Bare(o) == o.pub = None /\ o.priv = None /\ o.addrs = {}

\* The fields of the union of two records of one id, one of which lacks what the
\* other has.
FieldUnion(a, b) ==
  [id |-> a.id, addrs |-> a.addrs \cup b.addrs,
   pub |-> IF a.pub # None THEN a.pub ELSE b.pub,
   priv |-> IF a.priv # None THEN a.priv ELSE b.priv]
Fields(o) == [id |-> o.id, addrs |-> o.addrs, pub |-> o.pub, priv |-> o.priv]

\* C11: when Add is given a record for a key with no entry, the entry holds the
\* record's fields afterwards; when the entry exists and it or the record given is
\* bare (id only), the entry holds the union of the fields of both afterwards; no
\* other key's entry changes; and All returns the map as it is.
C11_AddMergesUnion ==
  [][/\ \A t \in RegTasks :
          AddStep(t) =>
            LET p == rOp[t].arg
                k == Key(peers[p].id)
                e == data[k]
            IN /\ data'[k] # NoPeer
               /\ \A j \in RegKeys \ {k} : data'[j] = data[j]
               /\ e = NoPeer => Fields(peers'[data'[k]]) = Fields(peers[p])
               /\ (e # NoPeer /\ (Bare(peers[e]) \/ Bare(peers[p]))) =>
                    Fields(peers'[data'[k]]) = FieldUnion(peers[e], peers[p])
     /\ (rRet' # rRet /\ rRet'.op = "All") => rRet'.snap = data]_vars

\* A peer registered bare by FindOrCreate was then given addr1 by Add, and All
\* returned a map with that one entry for it.
C11_Witness ==
  /\ rRet.op = "All"
  /\ rRet.snap["idA"] # NoPeer
  /\ rRet.snap["idA"] \in focAll["idA"]
  /\ peers[rRet.snap["idA"]].addrs = {"addr1"}
  /\ rRet.snap["idB"] = NoPeer /\ rRet.snap[""] = NoPeer

\* Every entry of the map is an allocated peer stored under its own id's key.
EntriesKeyed ==
  \A k \in RegKeys :
    data[k] # NoPeer => peers[data[k]].alloc /\ Key(peers[data[k]].id) = k

\* C12: every entry is stored under the key of its own id (so no id has two
\* entries), after every step of every operation; and an Add for a key that has
\* an entry leaves that same record object in the map, returns it (not the
\* caller's record) when called directly, and changes no record when the caller's
\* record is the stored one.
C12_OneRecordPerId ==
  [][/\ EntriesKeyed'
     /\ \A t \in RegTasks :
          AddStep(t) =>
            LET p == rOp[t].arg
                k == Key(peers[p].id)
                e == data[k]
            IN e # NoPeer =>
                 /\ data'[k] = e
                 /\ rOp[t].op = "Add" => rRet'.ref = e
                 /\ p = e => peers' = peers
                 /\ peers'[e].id = peers[e].id]_vars

\* Add was given a record other than the stored one and returned the stored one.
C12_Witness ==
  /\ rRet.op = "Add"
  /\ rRet.ref # NoPeer /\ rRet.ref # rRet.arg
  /\ data[Key(peers[rRet.arg].id)] = rRet.ref

\* C13: a Get or FindOrCreate call with a nil or an empty id returns an error and
\* no record, and FindOrCreate never made an entry for the empty id.
C13_EmptyIdRejected ==
  /\ (rRet.op \in {"Get", "FindOrCreate"} /\ rRet.id \in {None, ""}) =>
       rRet.err # None /\ rRet.ref = NoPeer
  /\ focAll[""] = {}

\* A private key and a supplied public key that is not the private key's.
Mismatch(sk, pk) ==
  /\ sk \in PrivKeys /\ pk \in PubKeys
  /\ (sk = "skA") # (pk = "pkA")

\* C14: a WithKeyPair call with a private key and a different supplied public key
\* never reaches Add, and returns the key mismatch error and no peer in a step that
\* leaves the map and every record as they were.
C14_KeyMismatchNoChange ==
  [][/\ \A t \in RegTasks :
          rOp'[t].op = "WithKeyPair" => ~Mismatch(rOp'[t].sk, rOp'[t].pk)
     /\ (regOps' # regOps /\ rRet'.op = "WithKeyPair"
           /\ Mismatch(rRet'.sk, rRet'.pk) /\ \A t \in RegTasks : rOp'[t] = rOp[t]) =>
          /\ rRet'.err = "KeyMismatch"
          /\ rRet'.ref = NoPeer
          /\ data' = data
          /\ peers' = peers]_vars

\* WithKeyPair returned the key mismatch error on a registry that holds an entry.
C14_Witness ==
  /\ rRet.op = "WithKeyPair" /\ rRet.err = "KeyMismatch"
  /\ Mismatch(rRet.sk, rRet.pk)
  /\ \E k \in RegKeys : data[k] # NoPeer

\* C19 as stated: all FindOrCreate calls for a valid id return the same record.
C19_SameRecordAlways ==
  \A k \in RegKeys \ {""} : Cardinality(focAll[k]) <= 1

\* C19 (amended): FindOrCreate with a valid id returns a record and no error; the
\* FindOrCreate calls for one id since the last Delete of that id all returned the
\* same record, and it is the entry stored for the id; at most one task is
\* inside an operation's critical section.
C19_SameRecordUntilDelete ==
  /\ \A k \in RegKeys \ {""} :
       /\ \A i \in 1..Len(focSince[k]) : focSince[k][i] = data[k]
       /\ Len(focSince[k]) > 0 => data[k] # NoPeer
  /\ (rRet.op = "FindOrCreate" /\ rRet.id \notin {None, ""}) =>
       rRet.err = None /\ rRet.ref # NoPeer
  /\ Cardinality({t \in RegTasks : rPc[t] \in {"body", "insert"}}) <= 1

\* Two FindOrCreate calls for idA returned the stored record, with no Delete of
\* idA between them.
C19_Witness ==
  /\ Len(focSince["idA"]) >= 2
  /\ rRet.op = "FindOrCreate" /\ rRet.id = "idA"
  /\ rRet.ref = data["idA"]


\* C25: when a WithID or WithKeyPair call for a non-empty id returns without an
\* error, the Peer it returns is the record stored under that id, the one Get
\* returns, whether or not the id had an entry before; and the stored record
\* carries the keys supplied to WithKeyPair.
C25_ReturnsStoredRecord ==
  [][\A t \in RegTasks :
       (/\ rPc[t] = "body" /\ rPc'[t] = "idle"
        /\ rOp[t].op \in {"WithID", "WithKeyPair"}
        /\ rOp[t].id \notin {None, ""}) =>
          /\ rRet'.err = None
          /\ rRet'.ref = data'[Key(rOp[t].id)]
          /\ rOp[t].op = "WithKeyPair" =>
                /\ peers'[data'[Key(rOp[t].id)]].priv = rOp[t].sk
                /\ peers'[data'[Key(rOp[t].id)]].pub = GetPublic(rOp[t].sk)]_vars

====
